---- MODULE Spec2Model ----
(***************************************************************************)
(* The registration form of src/components/Form.tsx as a state machine.   *)
(*                                                                         *)
(* Strings are sequences of one-character strings, so that length,        *)
(* regular-expression tests, endsWith, replace and parseInt are computed  *)
(* character by character as the JavaScript does.  Error messages are the *)
(* literal messages of the source.                                        *)
(*                                                                         *)
(* React scheduling: an event handler runs to completion and its state    *)
(* updates are committed together.  The useEffect callback runs after     *)
(* that commit, and the isFormValid it sets is seen by handlers only      *)
(* after a further render; until then handlers read the previous          *)
(* isFormValid.  The model keeps the handler step and the effect step     *)
(* apart: effectPending says that formData or selectedCountry changed and *)
(* the effect has not yet delivered isFormValid.                          *)
(***************************************************************************)
EXTENDS Integers, Sequences, FiniteSets

VARIABLES
    formData,         \* useState<FormData>, line 26
    selectedCountry,  \* useState<string>, line 25
    errors,           \* useState<{[key: string]: string}>, line 35
    isSubmitted,      \* line 36
    isFormValid,      \* line 37
    effectPending,    \* the useEffect of line 144 is due
    consoleLog,       \* the payloads written by console.log, line 171
    rawValue          \* the value the input widget reports (single-field specifications)

vars == <<formData, selectedCountry, errors, isSubmitted, isFormValid,
          effectPending, consoleLog, rawValue>>

-----------------------------------------------------------------------------
(* Bounds *)

MaxPhoneLen == 11

MaxAgeLen == 4

-----------------------------------------------------------------------------
(* Characters and strings *)

Digits == <<"0", "1", "2", "3", "4", "5", "6", "7", "8", "9">>

DigitChars == {Digits[i] : i \in 1..10}

HexLetters == <<"a", "b", "c", "d", "e", "f">>

HexUpper == <<"A", "B", "C", "D", "E", "F">>

WhiteSpace == {" "}

SpecialChars == {"!", "@", "#", "$", "%", "^", "&", "*"}

FullNameMinLength == 3

PasswordMinLength == 8

PhoneLength == 10

AgeMin == 18

AgeMax == 65

\* /\d/.test(value), /[!@#$%^&*]/.test(value)
ContainsAny(s, chars) == \E i \in 1..Len(s) : s[i] \in chars

\* /^\d+$/.test(value)
AllDigits(s) == Len(s) > 0 /\ \A i \in 1..Len(s) : s[i] \in DigitChars

\* value.endsWith(suffix)
endsWith(s, suffix) ==
    /\ Len(s) >= Len(suffix)
    /\ \A i \in 1..Len(suffix) : s[Len(s) - Len(suffix) + i] = suffix[i]

\* /^[^\s@]+@[^\s@]+\.[^\s@]+$/.test(value)
emailRegexTest(s) ==
    \E i \in 1..Len(s) : \E j \in 1..Len(s) :
        /\ s[i] = "@"
        /\ i > 1
        /\ s[j] = "."
        /\ j > i + 1
        /\ j < Len(s)
        /\ \A k \in 1..Len(s) : s[k] \notin WhiteSpace /\ (k # i => s[k] # "@")

\* processedValue.replace(/\D/g, "")
StripKeepAll(s) == s

StripNonDigits(s) == SelectSeq(s, LAMBDA c : c \in DigitChars)

\* Number.prototype.toString for an integer
RECURSIVE NatToString(_)
NatToString(n) ==
    IF n < 10 THEN <<Digits[n + 1]>>
    ELSE Append(NatToString(n \div 10), Digits[(n % 10) + 1])

ToString(n) == IF n < 0 THEN <<"-">> \o NatToString(0 - n) ELSE NatToString(n)

\* The value of a character as a digit of the given radix, -1 when it is none
DigitValue(c, radix) ==
    LET v == IF c \in DigitChars THEN (CHOOSE d \in 0..9 : Digits[d + 1] = c)
             ELSE IF \E k \in 1..6 : HexLetters[k] = c
                  THEN 9 + (CHOOSE k \in 1..6 : HexLetters[k] = c)
             ELSE IF \E k \in 1..6 : HexUpper[k] = c
                  THEN 9 + (CHOOSE k \in 1..6 : HexUpper[k] = c)
             ELSE -1
    IN IF v < radix THEN v ELSE -1

RECURSIVE TrimStart(_)
TrimStart(s) ==
    IF Len(s) > 0 /\ s[1] \in WhiteSpace THEN TrimStart(Tail(s)) ELSE s

\* The number of leading characters of s that are digits of the radix
RECURSIVE PrefixLen(_, _)
PrefixLen(s, radix) ==
    IF Len(s) > 0 /\ DigitValue(s[1], radix) >= 0
    THEN 1 + PrefixLen(Tail(s), radix)
    ELSE 0

RECURSIVE DigitsValue(_, _)
DigitsValue(s, radix) ==
    IF Len(s) = 0 THEN 0
    ELSE DigitsValue(SubSeq(s, 1, Len(s) - 1), radix) * radix
         + DigitValue(s[Len(s)], radix)

\* parseInt(value) with no radix argument: leading white space is skipped, a
\* sign is read, "0x"/"0X" selects radix 16, the longest prefix of digits is
\* converted and whatever follows is ignored; no digit at all gives NaN.
parseInt(value) ==
    LET t == TrimStart(value)
        neg == Len(t) > 0 /\ t[1] = "-"
        u == IF Len(t) > 0 /\ t[1] \in {"-", "+"} THEN Tail(t) ELSE t
        hex == Len(u) >= 2 /\ u[1] = "0" /\ u[2] \in {"x", "X"}
        radix == IF hex THEN 16 ELSE 10
        w == IF hex THEN SubSeq(u, 3, Len(u)) ELSE u
        n == PrefixLen(w, radix)
        v == DigitsValue(SubSeq(w, 1, n), radix)
    IN [isNaN |-> n = 0, num |-> IF n = 0 THEN 0 ELSE IF neg THEN 0 - v ELSE v]

-----------------------------------------------------------------------------
(* validateField, lines 47-92 *)

validateFullName(value) ==
    IF value = <<>> THEN "Full name is required"
    ELSE IF Len(value) < FullNameMinLength THEN "Full name must be at least 3 characters"
    ELSE ""

validateEmail(value) ==
    IF value = <<>> THEN "Email is required"
    ELSE IF ~emailRegexTest(value) THEN "Please enter a valid email address"
    ELSE IF ~endsWith(value, <<".", "c", "o", "m">>) /\ ~endsWith(value, <<".", "n", "e", "t">>)
         THEN "Email must end with .com or .net"
    ELSE ""

validatePassword(value) ==
    IF value = <<>> THEN "Password is required"
    ELSE IF Len(value) < PasswordMinLength THEN "Password must be at least 8 characters"
    ELSE IF ~ContainsAny(value, DigitChars) THEN "Password must include at least one number"
    ELSE IF ~ContainsAny(value, SpecialChars)
         THEN "Password must include at least one special character"
    ELSE ""

validatePhone(value) ==
    IF value = <<>> THEN "Phone number is required"
    ELSE IF ~AllDigits(value) THEN "Please enter numbers only"
    ELSE IF Len(value) # PhoneLength THEN "Please enter a valid 10-digit phone number"
    ELSE ""

validateAge(value) ==
    IF value = <<>> THEN "Age is required"
    ELSE LET age == parseInt(value)
         IN IF age.isNaN \/ age.num < AgeMin \/ age.num > AgeMax
            THEN "Age must be between 18 and 65"
            ELSE ""

validateCountry(value) ==
    IF value = <<>> THEN "Please select a country" ELSE ""

validateAgreeToTerms(value) ==
    IF ~value THEN "You must agree to the terms" ELSE ""

validateField(fieldName, value) ==
    CASE fieldName = "fullName" -> validateFullName(value)
      [] fieldName = "email" -> validateEmail(value)
      [] fieldName = "password" -> validatePassword(value)
      [] fieldName = "phone" -> validatePhone(value)
      [] fieldName = "age" -> validateAge(value)
      [] fieldName = "country" -> validateCountry(value)
      [] fieldName = "agreeToTerms" -> validateAgreeToTerms(value)

-----------------------------------------------------------------------------
(* State *)

\* Object.keys(formData)
Fields == {"fullName", "email", "password", "phone", "age", "agreeToTerms", "country"}

\* The fields whose Input widget calls handleInputChange, lines 203-271
TextFields == {"fullName", "email", "password", "phone", "age"}

\* A value an input widget reports: a string or a number
Str(s) == [type |-> "string", num |-> 0, str |-> s]

Num(n) == [type |-> "number", num |-> n, str |-> <<>>]

\* errors[field], undefined for a field never set (rendered as no error)
ErrorOf(field) == IF field \in DOMAIN errors THEN errors[field] ELSE ""

SetError(prev, fieldName, error) ==
    [f \in (DOMAIN prev) \cup {fieldName} |-> IF f = fieldName THEN error ELSE prev[f]]

\* The state after construction, lines 25-37; the effect runs once after mount
InitForm ==
    /\ selectedCountry = <<>>
    /\ formData = [fullName |-> <<>>, email |-> <<>>, password |-> <<>>,
                   phone |-> <<>>, age |-> <<>>, agreeToTerms |-> FALSE,
                   country |-> <<>>]
    /\ errors = [f \in {} |-> ""]
    /\ isSubmitted = FALSE
    /\ isFormValid = FALSE
    /\ effectPending = TRUE
    /\ consoleLog = <<>>

Init == InitForm /\ rawValue = Str(<<>>)

-----------------------------------------------------------------------------
(* Handlers *)

\* The form and its handlers exist only while the success view is not shown,
\* lines 176-183
FormAlwaysRendered == TRUE

FormRendered == ~isSubmitted

\* handleInputChange with the error computed from the value as reported
handleInputChangeValidatesRaw(value, fieldName) ==
    LET reported == IF value.type = "number" THEN ToString(value.num) ELSE value.str
        processedValue == IF fieldName = "phone" THEN StripNonDigits(reported) ELSE reported
    IN /\ formData' = [formData EXCEPT ![fieldName] = processedValue]
       /\ errors' = SetError(errors, fieldName, validateField(fieldName, reported))

\* handleInputChange, lines 94-124: the two state updates it queues.  The
\* boolean branch of typeof is not taken by any caller (text inputs and the
\* select report strings or numbers).
handleInputChange(value, fieldName) ==
    LET converted == IF value.type = "number" THEN ToString(value.num) ELSE value.str
        processedValue == IF fieldName = "phone" THEN StripNonDigits(converted) ELSE converted
    IN /\ formData' = [formData EXCEPT ![fieldName] = processedValue]
       /\ errors' = SetError(errors, fieldName, validateField(fieldName, processedValue))

\* onChange of an Input widget, lines 203, 220, 237, 254, 271
InputChange(value, fieldName) ==
    /\ FormRendered
    /\ handleInputChange(value, fieldName)
    /\ effectPending' = TRUE
    /\ UNCHANGED <<selectedCountry, isSubmitted, isFormValid, consoleLog, rawValue>>

\* handleCountryChange that leaves the selected-country slot alone
handleCountryChangeFormOnly(value) ==
    /\ FormRendered
    /\ handleInputChange(Str(value), "country")
    /\ effectPending' = TRUE
    /\ UNCHANGED <<selectedCountry, isSubmitted, isFormValid, consoleLog, rawValue>>

\* handleCountryChange, lines 126-130
handleCountryChange(value) ==
    /\ FormRendered
    /\ selectedCountry' = value
    /\ handleInputChange(Str(value), "country")
    /\ effectPending' = TRUE
    /\ UNCHANGED <<isSubmitted, isFormValid, consoleLog, rawValue>>

\* handleCheckboxChange, lines 132-142
handleCheckboxChange ==
    LET newValue == ~formData.agreeToTerms
    IN /\ FormRendered
       /\ formData' = [formData EXCEPT !.agreeToTerms = newValue]
       /\ errors' = SetError(errors, "agreeToTerms",
                             IF newValue THEN "" ELSE "You must agree to the terms")
       /\ effectPending' = TRUE
       /\ UNCHANGED <<selectedCountry, isSubmitted, isFormValid, consoleLog, rawValue>>

\* The value useEffect computes, lines 145-158
ComputeValid(data, country) ==
    /\ \A field \in Fields : validateField(field, data[field]) = ""
    /\ validateCountry(country) = ""

\* useEffect deriving validity from the stored errors
useEffectFromErrors ==
    /\ effectPending
    /\ isFormValid' = (\A field \in Fields : ErrorOf(field) = "")
    /\ effectPending' = FALSE
    /\ UNCHANGED <<formData, selectedCountry, errors, isSubmitted, consoleLog, rawValue>>

\* useEffect that does not look at agreeToTerms
useEffectSkipsTerms ==
    /\ effectPending
    /\ isFormValid' = /\ \A field \in Fields \ {"agreeToTerms"} :
                            validateField(field, formData[field]) = ""
                      /\ validateCountry(selectedCountry) = ""
    /\ effectPending' = FALSE
    /\ UNCHANGED <<formData, selectedCountry, errors, isSubmitted, consoleLog, rawValue>>

\* useEffect, lines 144-162: runs after a commit that changed formData or
\* selectedCountry (and once after mount)
useEffect ==
    /\ effectPending
    /\ isFormValid' = ComputeValid(formData, selectedCountry)
    /\ effectPending' = FALSE
    /\ UNCHANGED <<formData, selectedCountry, errors, isSubmitted, consoleLog, rawValue>>

\* handleSubmit without the isFormValid test
handleSubmitUnguarded ==
    /\ FormRendered
    /\ consoleLog' = Append(consoleLog, [formData EXCEPT !.country = selectedCountry])
    /\ isSubmitted' = TRUE
    /\ UNCHANGED <<formData, selectedCountry, errors, isFormValid, effectPending, rawValue>>

\* handleSubmit, lines 164-174
handleSubmit ==
    /\ FormRendered
    /\ IF isFormValid
       THEN /\ consoleLog' = Append(consoleLog, [formData EXCEPT !.country = selectedCountry])
            /\ isSubmitted' = TRUE
       ELSE UNCHANGED <<consoleLog, isSubmitted>>
    /\ UNCHANGED <<formData, selectedCountry, errors, isFormValid, effectPending, rawValue>>

-----------------------------------------------------------------------------
(* Events the user can raise *)

FullNameInputs ==
    {Str(<<>>), Str(<<"a", "b">>), Str(<<"J", "o", "e">>)}

EmailInputs ==
    {Str(<<>>),
     Str(<<"a", "@", "b", ".", "c", "o", "m">>),
     Str(<<"a", "@", "b", ".", "o", "r", "g">>),
     Str(<<"n", "o", "-", "a", "t">>)}

PasswordInputs ==
    {Str(<<>>),
     Str(<<"a", "b", "c", "1", "2", "3", "4", "5">>),
     Str(<<"a", "b", "c", "d", "1", "2", "3", "!">>)}

PhoneInputs ==
    {Str(<<>>),
     Str(<<"1", "2", "a", "3", "4", "5", "6", "7", "8", "9">>),
     Str(<<"1", "2", "3", "-", "4", "5", "6", "-", "7", "8", "9", "0">>),
     Num(1234567890)}

AgeInputs ==
    {Str(<<>>), Str(<<"1", "7">>), Str(<<"3", "0">>), Num(65)}

\* The option values of the select, lines 39-45 and 294
CountryInputs ==
    {<<>>, <<"u", "s", "a">>, <<"u", "k">>}

Inputs(fieldName) ==
    CASE fieldName = "fullName" -> FullNameInputs
      [] fieldName = "email" -> EmailInputs
      [] fieldName = "password" -> PasswordInputs
      [] fieldName = "phone" -> PhoneInputs
      [] fieldName = "age" -> AgeInputs

Update == \E fieldName \in TextFields : \E value \in Inputs(fieldName) :
              InputChange(value, fieldName)

SetCountry == \E value \in CountryInputs : handleCountryChange(value)

ToggleAgreement == handleCheckboxChange

Recompute == useEffect

Submit == handleSubmit

Next == Update \/ SetCountry \/ ToggleAgreement \/ Recompute \/ Submit

Spec == Init /\ [][Next]_vars

-----------------------------------------------------------------------------
(* Single-field specifications: one reported value, drawn from every string *)
(* over a small alphabet up to a length bound and from a few numbers, is    *)
(* delivered to the field's handler.                                         *)

StringsUpTo(alphabet, n) == UNION {[1..k -> alphabet] : k \in 0..n}

PhoneAlphabet == {"7", "-"}

PhoneNumbers == {0, -5, 123456789, 1234567890}

PhoneValues ==
    {Str(s) : s \in StringsUpTo(PhoneAlphabet, MaxPhoneLen)} \cup {Num(n) : n \in PhoneNumbers}

InitPhone == InitForm /\ rawValue \in PhoneValues

PhoneChange == InputChange(rawValue, "phone")

NextPhone == PhoneChange \/ Recompute

SpecPhone == InitPhone /\ [][NextPhone]_vars

AgeAlphabet == {"1", "5", "6", "7", "8", "a", "-", " "}

AgeNumbers == {-30, 0, 17, 18, 65, 66}

AgeValues ==
    {Str(s) : s \in StringsUpTo(AgeAlphabet, MaxAgeLen)} \cup {Num(n) : n \in AgeNumbers}

InitAge == InitForm /\ rawValue \in AgeValues

AgeChange == InputChange(rawValue, "age")

NextAge == AgeChange \/ Recompute

SpecAge == InitAge /\ [][NextAge]_vars

-----------------------------------------------------------------------------
(* Properties *)

\* Every validator passes on the values of data, and the country validator on country
AllPass(data, country) ==
    /\ validateFullName(data.fullName) = ""
    /\ validateEmail(data.email) = ""
    /\ validatePassword(data.password) = ""
    /\ validatePhone(data.phone) = ""
    /\ validateAge(data.age) = ""
    /\ validateCountry(data.country) = ""
    /\ validateAgreeToTerms(data.agreeToTerms) = ""
    /\ validateCountry(country) = ""

\* The field still holds its default (empty or false) value
IsBlank(field) ==
    IF field = "agreeToTerms" THEN ~formData.agreeToTerms ELSE formData[field] = <<>>

\* C1: the form goes from Editing to Submitted only in a handleSubmit step
\* taken while isFormValid is true.
C1_SubmittedOnlyByValidSubmit ==
    [][(~isSubmitted /\ isSubmitted') => (isFormValid /\ handleSubmit)]_vars

C1_Witness == isSubmitted /\ Len(consoleLog) = 1

\* C2: once Submitted the form stays Submitted, and formData, errors and
\* selectedCountry never change again.
C2_SubmittedIsTerminal ==
    [][isSubmitted => (isSubmitted' /\ UNCHANGED <<formData, errors, selectedCountry>>)]_vars

C2_Witness == isSubmitted /\ isFormValid /\ ~effectPending

\* C3 as stated: in every reachable state isFormValid is true iff every
\* field's errors entry is empty, a missing entry counting as empty.
C3_ValidIffNoErrors ==
    isFormValid <=> (\A field \in Fields : ErrorOf(field) = "")

\* C3 amended: once the recomputation has run, isFormValid is true iff every
\* field has an errors entry and that entry is empty (a missing entry, the
\* entry of a field never changed, does not count as empty).
C3_ValidIffAllEntriesPresentAndEmpty ==
    ~effectPending =>
        (isFormValid <=> (\A field \in Fields : field \in DOMAIN errors /\ errors[field] = ""))

C3_Witness ==
    /\ ~effectPending
    /\ ~isFormValid
    /\ DOMAIN errors # {}
    /\ DOMAIN errors # Fields
    /\ \A field \in Fields : ErrorOf(field) = ""

\* C4: after a mutating operation and its recomputation, isFormValid is true
\* iff all seven validators pass on the current formData and the country
\* validator passes on selectedCountry.
C4_ValidityMatchesValidators ==
    ~effectPending => (isFormValid <=> AllPass(formData, selectedCountry))

C4_Witness ==
    /\ ~effectPending
    /\ ~isFormValid
    /\ "agreeToTerms" \in DOMAIN errors
    /\ ~formData.agreeToTerms
    /\ AllPass([formData EXCEPT !.agreeToTerms = TRUE], selectedCountry)

\* C5: for every field changed at least once, the errors entry is the
\* field's validator applied to the stored value.
C5_ErrorsMatchValues ==
    \A field \in DOMAIN errors : errors[field] = validateField(field, formData[field])

C5_Witness ==
    /\ "phone" \in DOMAIN errors
    /\ errors["phone"] = "Please enter a valid 10-digit phone number"
    /\ "agreeToTerms" \in DOMAIN errors
    /\ errors["agreeToTerms"] = "You must agree to the terms"

\* C6: selectedCountry always equals formData.country, so a logged payload
\* equals formData.
C6_CountrySlotsInSync ==
    /\ selectedCountry = formData.country
    /\ \A i \in 1..Len(consoleLog) : consoleLog[i] = formData

C6_Witness ==
    /\ isSubmitted
    /\ selectedCountry = <<"u", "k">>
    /\ consoleLog = <<formData>>

\* C7: a handleSubmit step taken while isFormValid is false, or while a
\* single field is blank and all the others are valid, changes nothing.
C7_SubmitInvalidIsNoOp ==
    [][(/\ handleSubmit
        /\ \/ ~isFormValid
           \/ \E field \in Fields :
                 /\ IsBlank(field)
                 /\ \A other \in Fields \ {field} :
                        validateField(other, formData[other]) = "")
       => UNCHANGED vars]_vars

\* The digits of a string, counted
RECURSIVE DigitCount(_)
DigitCount(s) ==
    IF s = <<>> THEN 0
    ELSE (IF s[1] \in DigitChars THEN 1 ELSE 0) + DigitCount(Tail(s))

\* The reported value as a string
Reported == IF rawValue.type = "number" THEN ToString(rawValue.num) ELSE rawValue.str

\* C8: after a phone change the stored phone holds digits only, as many as
\* the reported value had, and the phone error is the required message for
\* no digit, the length message for a count other than 10 and empty for 10;
\* never "Please enter numbers only".
C8_PhoneStrippedThenValidated ==
    "phone" \in DOMAIN errors =>
        /\ \A i \in 1..Len(formData.phone) : formData.phone[i] \in DigitChars
        /\ Len(formData.phone) = DigitCount(Reported)
        /\ errors["phone"] =
              (IF DigitCount(Reported) = 0 THEN "Phone number is required"
               ELSE IF DigitCount(Reported) # 10
                    THEN "Please enter a valid 10-digit phone number"
               ELSE "")
        /\ errors["phone"] # "Please enter numbers only"

C8_Witness ==
    /\ "phone" \in DOMAIN errors
    /\ rawValue.type = "string"
    /\ Len(rawValue.str) = 11
    /\ rawValue.str[3] = "-"
    /\ Len(formData.phone) = 10
    /\ errors["phone"] = ""

\* A string that is an integer numeral: optional sign and one or more
\* decimal digits, white space around it allowed
RECURSIVE TrimEnd(_)
TrimEnd(s) ==
    IF Len(s) > 0 /\ s[Len(s)] \in WhiteSpace THEN TrimEnd(SubSeq(s, 1, Len(s) - 1)) ELSE s

Unsigned(s) == IF Len(s) > 0 /\ s[1] \in {"-", "+"} THEN Tail(s) ELSE s

IsIntegerNumeral(s) == AllDigits(Unsigned(TrimEnd(TrimStart(s))))

NumeralValue(s) ==
    LET t == TrimEnd(TrimStart(s))
        v == DigitsValue(Unsigned(t), 10)
    IN IF t[1] = "-" THEN 0 - v ELSE v

\* C9: the age error is empty iff the stored age is an integer numeral with
\* value in [18, 65]; the empty string gives the required message and every
\* other string that is no integer numeral gives the range message.
C9_AgeAcceptsOnlyIntegersInRange ==
    "age" \in DOMAIN errors =>
        /\ (errors["age"] = "") <=>
              (/\ IsIntegerNumeral(formData.age)
               /\ NumeralValue(formData.age) >= AgeMin
               /\ NumeralValue(formData.age) <= AgeMax)
        /\ (formData.age = <<>>) => (errors["age"] = "Age is required")
        /\ (formData.age # <<>> /\ ~IsIntegerNumeral(formData.age))
              => (errors["age"] = "Age must be between 18 and 65")

\* C10: whenever the form is Submitted, every field of the logged payload
\* passes its validator.
C10_NoInvalidDataSubmitted ==
    isSubmitted =>
        \A i \in 1..Len(consoleLog) : AllPass(consoleLog[i], consoleLog[i].country)

====
